---- MODULE Spec2Model ----
(***************************************************************************)
(* Button Handler library (button_handler.c / button_handler.h).           *)
(*                                                                         *)
(* One Button_t instance, polled through Button_GetFinalCount.  The pin    *)
(* level read by HAL_GPIO_ReadPin is an input of every fetch; software     *)
(* timer time is advanced by the environment (softTimer_update in the      *)
(* SysTick handler) between fetches.                                       *)
(***************************************************************************)
EXTENDS Integers, FiniteSets, Sequences, TLC

(***************************************************************************)
(* Program constants.                                                      *)
(***************************************************************************)
DEBOUNCE_DELAY_MS == 50

BUTTON_TIMEOUT_MS == 1000

PUSH_COUNT_MAX == 5

(***************************************************************************)
(* Bounds of the model.                                                    *)
(*   TickMs     granularity of timer time: time advances by multiples of   *)
(*              TickMs between two fetches.                                *)
(*   MaxElapsed a timer's elapsed time saturates here (no threshold lies   *)
(*              above it).                                                 *)
(*   MaxEdges   the observer's edge counters saturate here.                *)
(*   MaxTwoSteps the number of steps of a run of the two-button            *)
(*              specification.                                             *)
(***************************************************************************)
TickMs == 25

MaxElapsed == 1000

MaxEdges == 8

MaxTwoSteps == 7

Steps == {TickMs, 2 * TickMs, 40 * TickMs}

(***************************************************************************)
(* Enumerations.                                                           *)
(***************************************************************************)
return_success == "return_success"

return_failed == "return_failed"

return_busy == "return_busy"

GPIO_PIN_RESET == "GPIO_PIN_RESET"

GPIO_PIN_SET == "GPIO_PIN_SET"

GPIO_PULLUP == "GPIO_PULLUP"

GPIO_PULLDOWN == "GPIO_PULLDOWN"

GPIO_NOPULL == "GPIO_NOPULL"

PinStates == {GPIO_PIN_RESET, GPIO_PIN_SET}

Pulls == {GPIO_PULLUP, GPIO_PULLDOWN, GPIO_NOPULL}

Ports == {"GPIOA"}

Pins == {"GPIO_PIN_0"}

Min(a, b) == IF a <= b THEN a ELSE b

(***************************************************************************)
(* softTimer: a restartable stopwatch.  A timer is the time elapsed since  *)
(* its last reset.                                                         *)
(***************************************************************************)
softTimer_reset(timer) == 0

softTimer_isElapsed(timer, ms) == timer >= ms

softTimer_update(timer, d) == Min(timer + d, MaxElapsed)

(***************************************************************************)
(* Button_Init: every field of the structure is assigned.                  *)
(***************************************************************************)
Button_Init(button, port, pin, pull) ==
    [port          |-> port,
     pin           |-> pin,
     pushCount     |-> 0,
     isReadFinish  |-> FALSE,
     debounceTimer |-> softTimer_reset(0),
     timeoutTimer  |-> softTimer_reset(0),
     lastState     |-> GPIO_PIN_RESET,
     pull          |-> pull]

activeState(pull) == IF pull = GPIO_PULLUP THEN GPIO_PIN_RESET ELSE GPIO_PIN_SET

inactiveState(pull) == IF pull = GPIO_PULLUP THEN GPIO_PIN_SET ELSE GPIO_PIN_RESET

(***************************************************************************)
(* The steps of Button_CountPushes.                                        *)
(***************************************************************************)
(* Variants: the edge test without the lastState operand (level           *)
(* triggered), and with the polarity fixed to active-high.                 *)
IsPressEdge_LevelTriggered(button, currentState) ==
    currentState = activeState(button.pull)

IsPressEdge_ActiveHighOnly(button, currentState) ==
    /\ currentState = GPIO_PIN_SET
    /\ button.lastState = GPIO_PIN_RESET

(* if (currentState == activeState && button->lastState == inactiveState) *)
IsPressEdge(button, currentState) ==
    /\ currentState = activeState(button.pull)
    /\ button.lastState = inactiveState(button.pull)

(* Variant: the debounce test against half the delay.                      *)
IsDebounced_HalfDelay(button) ==
    softTimer_isElapsed(button.debounceTimer, DEBOUNCE_DELAY_MS \div 2)

(* Variant: no debounce test.                                              *)
IsDebounced_Always(button) == TRUE

(* if (softTimer_isElapsed(&button->debounceTimer, DEBOUNCE_DELAY_MS))    *)
IsDebounced(button) ==
    softTimer_isElapsed(button.debounceTimer, DEBOUNCE_DELAY_MS)

(* Variant: a valid press resets the timers without counting.             *)
ConfirmPress_NoIncrement(button) ==
    [button EXCEPT !.debounceTimer = softTimer_reset(@),
                   !.timeoutTimer  = softTimer_reset(@)]

(* Variant: a valid press leaves the timeout timer running.               *)
ConfirmPress_KeepTimeout(button) ==
    [button EXCEPT !.debounceTimer = softTimer_reset(@),
                   !.pushCount     = (@ + 1) % 256]

(* The body of the debounce branch; pushCount is a uint8_t.               *)
ConfirmPress(button) ==
    [button EXCEPT !.debounceTimer = softTimer_reset(@),
                   !.timeoutTimer  = softTimer_reset(@),
                   !.pushCount     = (@ + 1) % 256]

(* Variant: the timeout test against the debounce delay.                   *)
IsTimedOut_DebounceDelay(button) ==
    softTimer_isElapsed(button.timeoutTimer, DEBOUNCE_DELAY_MS)

(* if (softTimer_isElapsed(&button->timeoutTimer, BUTTON_TIMEOUT_MS))     *)
IsTimedOut(button) ==
    softTimer_isElapsed(button.timeoutTimer, BUTTON_TIMEOUT_MS)

(* Variant: the timeout branch resets the debounce timer as well.          *)
FireTimeout_ResetBoth(button) ==
    [button EXCEPT !.isReadFinish  = TRUE,
                   !.timeoutTimer  = softTimer_reset(@),
                   !.debounceTimer = softTimer_reset(@)]

(* The body of the timeout branch.                                         *)
FireTimeout(button) ==
    [button EXCEPT !.isReadFinish = TRUE,
                   !.timeoutTimer = softTimer_reset(@)]

(* Variant: the overflow test off by one.                                  *)
IsOverflow_AtMax(button) == button.pushCount >= PUSH_COUNT_MAX

(* if (button->pushCount > PUSH_COUNT_MAX)                                *)
IsOverflow(button) == button.pushCount > PUSH_COUNT_MAX

(* Variant: the overflow branch returns without clearing pushCount.       *)
OverflowReset_Keep(button) == button

(* button->pushCount = 0 of the overflow branch.                          *)
OverflowReset(button) == [button EXCEPT !.pushCount = 0]

(* Variant of Button_CountPushes: lastState is not updated by an edge the  *)
(* debounce test rejects.                                                  *)
Button_CountPushes_KeepStateOnBounce(button, currentState) ==
    LET edge     == IsPressEdge(button, currentState)
        counted  == edge /\ IsDebounced(button)
        b1       == IF counted THEN ConfirmPress(button) ELSE button
        b2       == IF edge /\ ~counted THEN b1
                    ELSE [b1 EXCEPT !.lastState = currentState]
        timedOut == IsTimedOut(b2)
        b3       == IF timedOut THEN FireTimeout(b2) ELSE b2
    IN  IF IsOverflow(b3)
        THEN [button |-> OverflowReset(b3), ret |-> return_failed,
              counted |-> counted, timedOut |-> timedOut]
        ELSE IF b3.isReadFinish = TRUE
        THEN [button |-> b3, ret |-> return_success,
              counted |-> counted, timedOut |-> timedOut]
        ELSE [button |-> b3, ret |-> return_busy,
              counted |-> counted, timedOut |-> timedOut]

(***************************************************************************)
(* Button_CountPushes, with currentState the level HAL_GPIO_ReadPin        *)
(* returns.  The result carries the updated structure, the return value    *)
(* and which branches ran: counted (pushCount++ executed), timedOut (the   *)
(* timeout branch executed).                                               *)
(***************************************************************************)
Button_CountPushes(button, currentState) ==
    LET counted  == IsPressEdge(button, currentState) /\ IsDebounced(button)
        b1       == IF counted THEN ConfirmPress(button) ELSE button
        b2       == [b1 EXCEPT !.lastState = currentState]
        timedOut == IsTimedOut(b2)
        b3       == IF timedOut THEN FireTimeout(b2) ELSE b2
    IN  IF IsOverflow(b3)
        THEN [button |-> OverflowReset(b3), ret |-> return_failed,
              counted |-> counted, timedOut |-> timedOut]
        ELSE IF b3.isReadFinish = TRUE
        THEN [button |-> b3, ret |-> return_success,
              counted |-> counted, timedOut |-> timedOut]
        ELSE [button |-> b3, ret |-> return_busy,
              counted |-> counted, timedOut |-> timedOut]

(***************************************************************************)
(* The steps of Button_GetFinalCount.                                      *)
(***************************************************************************)
(* Variant: the lower limit of the validation missing.                     *)
IsValidCount_NoLowerLimit(button) == button.pushCount <= PUSH_COUNT_MAX

(* if (button->pushCount > 0 && button->pushCount <= PUSH_COUNT_MAX)      *)
IsValidCount(button) ==
    button.pushCount > 0 /\ button.pushCount <= PUSH_COUNT_MAX

(* Variant: the tally is left in place after the count is consumed.        *)
Consume_KeepCount(button) == [button EXCEPT !.isReadFinish = FALSE]

(* Variant: the flag is left set after the count is consumed.             *)
Consume_KeepFlag(button) == [button EXCEPT !.pushCount = 0]

(* button->pushCount = 0; button->isReadFinish = false;                   *)
Consume(button) == [button EXCEPT !.pushCount = 0, !.isReadFinish = FALSE]

(* Variant of Button_GetFinalCount: *finalCount is assigned on every       *)
(* return_success of Button_CountPushes, valid count or not.               *)
Button_GetFinalCount_WriteUnchecked(button, finalCount, currentState) ==
    LET c == Button_CountPushes(button, currentState)
        b == c.button
    IN  IF c.ret = return_success
        THEN [button     |-> Consume(b),
              finalCount |-> b.pushCount,
              wrote      |-> TRUE,
              ret        |-> IF IsValidCount(b) THEN return_success
                                                ELSE return_failed,
              counted    |-> c.counted,
              timedOut   |-> c.timedOut]
        ELSE [button     |-> b,
              finalCount |-> finalCount,
              wrote      |-> FALSE,
              ret        |-> c.ret,
              counted    |-> c.counted,
              timedOut   |-> c.timedOut]

(***************************************************************************)
(* Button_GetFinalCount, with finalCount the caller's variable behind the  *)
(* pointer.  wrote tells whether *finalCount was assigned.                 *)
(***************************************************************************)
Button_GetFinalCount(button, finalCount, currentState) ==
    LET c == Button_CountPushes(button, currentState)
        b == c.button
    IN  IF c.ret = return_success
        THEN [button     |-> Consume(b),
              finalCount |-> IF IsValidCount(b) THEN b.pushCount ELSE finalCount,
              wrote      |-> IsValidCount(b),
              ret        |-> IF IsValidCount(b) THEN return_success
                                                ELSE return_failed,
              counted    |-> c.counted,
              timedOut   |-> c.timedOut]
        ELSE [button     |-> b,
              finalCount |-> finalCount,
              wrote      |-> FALSE,
              ret        |-> c.ret,
              counted    |-> c.counted,
              timedOut   |-> c.timedOut]

(***************************************************************************)
(* The one-shot latch variant of the timeout branch, compared with the     *)
(* original in SpecLatch.                                                  *)
(***************************************************************************)
(* The timeout branch without softTimer_reset(&button->timeoutTimer).      *)
FireTimeout_Latch(button) == [button EXCEPT !.isReadFinish = TRUE]

(* Button_CountPushes with that timeout branch.                            *)
Button_CountPushes_Latch(button, currentState) ==
    LET counted  == IsPressEdge(button, currentState) /\ IsDebounced(button)
        b1       == IF counted THEN ConfirmPress(button) ELSE button
        b2       == [b1 EXCEPT !.lastState = currentState]
        timedOut == IsTimedOut(b2)
        b3       == IF timedOut THEN FireTimeout_Latch(b2) ELSE b2
    IN  IF IsOverflow(b3)
        THEN [button |-> OverflowReset(b3), ret |-> return_failed,
              counted |-> counted, timedOut |-> timedOut]
        ELSE IF b3.isReadFinish = TRUE
        THEN [button |-> b3, ret |-> return_success,
              counted |-> counted, timedOut |-> timedOut]
        ELSE [button |-> b3, ret |-> return_busy,
              counted |-> counted, timedOut |-> timedOut]

(* Button_GetFinalCount over it.                                           *)
Button_GetFinalCount_Latch(button, finalCount, currentState) ==
    LET c == Button_CountPushes_Latch(button, currentState)
        b == c.button
    IN  IF c.ret = return_success
        THEN [button     |-> Consume(b),
              finalCount |-> IF IsValidCount(b) THEN b.pushCount ELSE finalCount,
              ret        |-> IF IsValidCount(b) THEN return_success
                                                ELSE return_failed]
        ELSE [button     |-> b,
              finalCount |-> finalCount,
              ret        |-> c.ret]

(***************************************************************************)
(* State.                                                                  *)
(*   button      the Button_t structure                                    *)
(*   finalCount  the caller's variable passed as finalCount                *)
(* Observer variables (written by no code, read by no code):               *)
(*   op          the last step: "init", "tick" or "fetch"                  *)
(*   last        what the most recent fetch since Button_Init did: its     *)
(*               return value, whether pushCount++ ran (counted), whether  *)
(*               the timeout branch ran (timedOut), whether *finalCount    *)
(*               was assigned (wrote), and the number of increments in the *)
(*               burst up to and including that fetch (burst), and whether *)
(*               the edge test was true (edge), and whether the timeout    *)
(*               timer had BUTTON_TIMEOUT_MS elapsed on entry (expired)    *)
(*   sample      level sampled by the most recent fetch since Button_Init  *)
(*   sinceMark   time since the later of Button_Init and the most recent   *)
(*               increment of pushCount                                    *)
(*   hadEdge     pushCount has been incremented since Button_Init          *)
(*   confirmed   increments since the later of Button_Init and the last    *)
(*               fetch that returned return_success or return_failed       *)
(*   burstEdges  increments since the later of Button_Init and the last    *)
(*               fetch in which the timeout fired                          *)
(*   quiet       time since the later of Button_Init and the last fetch    *)
(*               that returned return_success or return_failed, as long as *)
(*               pushCount has not been incremented since; NotQuiet after  *)
(*               an increment                                              *)
(* Observer of the single press-and-release specification (SpecBounce),    *)
(* constant in the others:                                                 *)
(*   gest        the press-and-release being sampled: its phase, the time  *)
(*               t since the phase began (saturating at DEBOUNCE_DELAY_MS) *)
(*               and the number n of increments of pushCount during it     *)
(* State of the two-button specification (SpecTwo), constant in the        *)
(* others:                                                                 *)
(*   two         keys: the Button_t structures key1 and key2; vals: the    *)
(*               callers' key1Val and key2Val; rets: the status each key's *)
(*               last fetch returned; solo: per key, the structure, value  *)
(*               and status of the same key polled alone with the same pin *)
(*               samples and timer time; who: the key the last step was a  *)
(*               call on (0 for a tick); steps: the number of steps taken  *)
(* State of the one-shot latch comparison (SpecLatch), constant in the     *)
(* others:                                                                 *)
(*   latch       button, finalCount: the structure and the caller's count  *)
(*               of the variant of Button_CountPushes that does not reset  *)
(*               the timeout timer when it fires, given the same calls,    *)
(*               samples and timer time as button; ret: the status its     *)
(*               last fetch returned                                       *)
(***************************************************************************)
VARIABLES button, finalCount, op, last, sample, sinceMark, hadEdge, confirmed,
          burstEdges, quiet, gest, two, latch

vars == <<button, finalCount, op, last, sample, sinceMark, hadEdge, confirmed,
          burstEdges, quiet, gest, two, latch>>

(* The variables of the other specifications.                             *)
aux == <<gest, two, latch>>

LatchOff == [ret |-> "none"]

TwoOff == [steps |-> 0]

GestOff == [phase |-> "off", t |-> 0, n |-> 0]

NoSample == "none"

NotQuiet == 0 - 1

NoFetch == [ret |-> "none", counted |-> FALSE, timedOut |-> FALSE, wrote |-> FALSE,
            burst |-> 0, edge |-> FALSE, expired |-> FALSE]

Init ==
    /\ \E port \in Ports, pin \in Pins, pull \in Pulls :
          button = Button_Init([pull |-> pull], port, pin, pull)
    /\ finalCount = 0
    /\ op = "init"
    /\ last = NoFetch
    /\ sample = NoSample
    /\ sinceMark = 0
    /\ hadEdge = FALSE
    /\ confirmed = 0
    /\ burstEdges = 0
    /\ quiet = 0
    /\ gest = GestOff
    /\ two = TwoOff
    /\ latch = LatchOff

(* main() calls Button_Init; the application may reinitialize a button.   *)
Reinit ==
    /\ \E port \in Ports, pin \in Pins, pull \in Pulls :
          button' = Button_Init(button, port, pin, pull)
    /\ op' = "init"
    /\ last' = NoFetch
    /\ sample' = NoSample
    /\ sinceMark' = 0
    /\ hadEdge' = FALSE
    /\ confirmed' = 0
    /\ burstEdges' = 0
    /\ quiet' = 0
    /\ UNCHANGED finalCount
    /\ UNCHANGED aux

(* softTimer_update from the tick handler: d ms of timer time pass.       *)
Tick ==
    \E d \in Steps :
       /\ button' = [button EXCEPT !.debounceTimer = softTimer_update(@, d),
                                   !.timeoutTimer  = softTimer_update(@, d)]
       /\ op' = "tick"
       /\ sinceMark' = Min(sinceMark + d, MaxElapsed)
       /\ quiet' = IF quiet = NotQuiet THEN NotQuiet ELSE Min(quiet + d, MaxElapsed)
       /\ UNCHANGED <<finalCount, last, sample, hadEdge, confirmed, burstEdges>>
       /\ UNCHANGED aux

(* One call status = Button_GetFinalCount(&button, &finalCount).          *)
Fetch ==
    \E currentState \in PinStates :
       LET r == Button_GetFinalCount(button, finalCount, currentState)
           n == IF r.counted THEN 1 ELSE 0
           burst == Min(burstEdges + n, MaxEdges)
       IN  /\ button' = r.button
           /\ finalCount' = r.finalCount
           /\ op' = "fetch"
           /\ last' = [ret |-> r.ret, counted |-> r.counted, timedOut |-> r.timedOut,
                       wrote |-> r.wrote, burst |-> burst,
                       edge |-> IsPressEdge(button, currentState),
                       expired |-> IsTimedOut(button)]
           /\ sample' = currentState
           /\ sinceMark' = IF r.counted THEN 0 ELSE sinceMark
           /\ hadEdge' = (hadEdge \/ r.counted)
           /\ confirmed' = IF r.ret # return_busy THEN 0
                           ELSE Min(confirmed + n, MaxEdges)
           /\ burstEdges' = IF r.timedOut THEN 0 ELSE burst
           /\ quiet' = IF r.ret # return_busy THEN 0
                       ELSE IF r.counted THEN NotQuiet ELSE quiet
           /\ UNCHANGED aux

Next == Reinit \/ Tick \/ Fetch

Spec == Init /\ [][Next]_vars

(***************************************************************************)
(* SpecLive: after Button_Init the main loop keeps calling                 *)
(* Button_GetFinalCount and the tick handler keeps running, for ever.      *)
(* Timer time moves in steps of LiveSteps; of the observers only op and    *)
(* last.ret, last.counted, last.expired are kept.                          *)
(***************************************************************************)
LiveSteps == {2 * TickMs, 40 * TickMs}

LiveFrame ==
    UNCHANGED <<sample, sinceMark, hadEdge, confirmed, burstEdges, quiet, gest,
                two, latch>>

LiveTick ==
    /\ \E d \in LiveSteps :
          button' = [button EXCEPT !.debounceTimer = softTimer_update(@, d),
                                   !.timeoutTimer  = softTimer_update(@, d)]
    /\ op' = "tick"
    /\ UNCHANGED <<finalCount, last>>
    /\ LiveFrame

LiveFetch ==
    /\ \E currentState \in PinStates :
          LET r == Button_GetFinalCount(button, finalCount, currentState)
          IN  /\ button' = r.button
              /\ finalCount' = r.finalCount
              /\ last' = [NoFetch EXCEPT !.ret = r.ret, !.counted = r.counted,
                                         !.expired = IsTimedOut(button)]
    /\ op' = "fetch"
    /\ LiveFrame

NextLive == LiveTick \/ LiveFetch

SpecLive == Init /\ [][NextLive]_vars /\ WF_vars(LiveTick) /\ WF_vars(LiveFetch)

TypeOK ==
    /\ button.pushCount \in 0..PUSH_COUNT_MAX
    /\ button.isReadFinish \in BOOLEAN
    /\ button.debounceTimer \in 0..MaxElapsed
    /\ button.timeoutTimer \in 0..MaxElapsed
    /\ button.lastState \in PinStates
    /\ button.pull \in Pulls
    /\ finalCount \in 0..PUSH_COUNT_MAX
    /\ op \in {"init", "tick", "fetch"}
    /\ last.ret \in {"none", return_success, return_failed, return_busy}
    /\ sample \in PinStates \cup {NoSample}
    /\ quiet \in {NotQuiet} \cup (0..MaxElapsed)

(***************************************************************************)
(* SpecBounce: one press-and-release with contact bounce, sampled by the   *)
(* fetches that follow Button_Init.                                        *)
(*                                                                         *)
(* Phases of gest:                                                         *)
(*   "init"     no sample yet                                              *)
(*   "idle"     released; the last sample was the inactive level           *)
(*   "press"    the press transition was sampled t ago, with the debounce  *)
(*              timer elapsed; until t reaches DEBOUNCE_DELAY_MS the level *)
(*              may oscillate                                              *)
(*   "hold"     pressed, steady at the active level                        *)
(*   "release"  the release transition was sampled t ago; until t reaches  *)
(*              DEBOUNCE_DELAY_MS the level may oscillate                  *)
(*   "done"     released and steady: the press-and-release is over         *)
(*   "other"    the samples are not such a press-and-release               *)
(* Nothing is sampled after "done" or "other".                             *)
(***************************************************************************)
GestAfterSample(g, b, prev, currentState, counted) ==
    LET act   == currentState = activeState(b.pull)
        n1    == g.n + (IF counted THEN 1 ELSE 0)
        late  == g.t >= DEBOUNCE_DELAY_MS
    IN  CASE g.phase = "init" ->
                IF act THEN [g EXCEPT !.phase = "other"]
                       ELSE [g EXCEPT !.phase = "idle"]
          [] g.phase = "idle" ->
                IF ~act THEN g
                ELSE IF softTimer_isElapsed(b.debounceTimer, DEBOUNCE_DELAY_MS)
                THEN [phase |-> "press", t |-> 0, n |-> n1]
                ELSE [g EXCEPT !.phase = "other"]
          [] g.phase = "press" ->
                IF ~late THEN [g EXCEPT !.n = n1]
                ELSE IF act THEN [g EXCEPT !.phase = "hold", !.n = n1]
                ELSE IF prev = activeState(b.pull)
                THEN [phase |-> "release", t |-> 0, n |-> n1]
                ELSE [g EXCEPT !.phase = "other"]
          [] g.phase = "hold" ->
                IF act THEN [g EXCEPT !.n = n1]
                       ELSE [phase |-> "release", t |-> 0, n |-> n1]
          [] g.phase = "release" ->
                IF ~late THEN [g EXCEPT !.n = n1]
                ELSE IF act THEN [g EXCEPT !.phase = "other"]
                ELSE [g EXCEPT !.phase = "done", !.n = n1]
          [] OTHER -> g

InitBounce ==
    /\ \E port \in Ports, pin \in Pins, pull \in Pulls :
          button = Button_Init([pull |-> pull], port, pin, pull)
    /\ finalCount = 0
    /\ op = "init"
    /\ last = NoFetch
    /\ sample = NoSample
    /\ sinceMark = 0
    /\ hadEdge = FALSE
    /\ confirmed = 0
    /\ burstEdges = 0
    /\ quiet = 0
    /\ gest = [phase |-> "init", t |-> 0, n |-> 0]
    /\ two = TwoOff
    /\ latch = LatchOff

BounceTick ==
    /\ gest.phase \notin {"done", "other"}
    /\ \E d \in Steps :
          /\ button' = [button EXCEPT !.debounceTimer = softTimer_update(@, d),
                                      !.timeoutTimer  = softTimer_update(@, d)]
          /\ gest' = [gest EXCEPT !.t = Min(@ + d, DEBOUNCE_DELAY_MS)]
    /\ op' = "tick"
    /\ UNCHANGED <<finalCount, last, sample, sinceMark, hadEdge, confirmed,
                   burstEdges, quiet, two, latch>>

BounceFetch ==
    /\ gest.phase \notin {"done", "other"}
    /\ \E currentState \in PinStates :
          LET r == Button_GetFinalCount(button, finalCount, currentState)
          IN  /\ button' = r.button
              /\ finalCount' = r.finalCount
              /\ sample' = currentState
              /\ gest' = GestAfterSample(gest, button, sample, currentState, r.counted)
    /\ op' = "fetch"
    /\ UNCHANGED <<last, sinceMark, hadEdge, confirmed, burstEdges, quiet, two,
                   latch>>

NextBounce == BounceTick \/ BounceFetch

SpecBounce == InitBounce /\ [][NextBounce]_vars

(***************************************************************************)
(* SpecTwo: the two buttons of the example main(), key1 (pull-up) and      *)
(* key2 (pull-down), initialized and polled in any order.  The module has  *)
(* no file-scope variable: a call reads and writes the structure and the   *)
(* count its two pointer arguments designate, and nothing else.            *)
(***************************************************************************)
Keys == {1, 2}

KeyPull(k) == IF k = 1 THEN GPIO_PULLUP ELSE GPIO_PULLDOWN

KeyPort(k) == IF k = 1 THEN "GPIOA" ELSE "GPIOB"

KeyPin(k) == IF k = 1 THEN "GPIO_PIN_0" ELSE "GPIO_PIN_1"

TwoSteps == {2 * TickMs, 40 * TickMs}

(* Button_Init(&key, ...) on the structures in memory.                     *)
Button_Init_At(keys, k, port, pin, pull) ==
    [keys EXCEPT ![k] = Button_Init(@, port, pin, pull)]

(* Variant: lastState kept in one file-scope variable shared by all the    *)
(* buttons.                                                                *)
Button_GetFinalCount_At_SharedLastState(keys, vals, k, currentState) ==
    LET r == Button_GetFinalCount(keys[k], vals[k], currentState)
    IN  [keys |-> [j \in DOMAIN keys |->
                     IF j = k THEN r.button
                     ELSE [keys[j] EXCEPT !.lastState = currentState]],
         vals |-> [vals EXCEPT ![k] = r.finalCount],
         ret  |-> r.ret]

(* Button_GetFinalCount(&key, &keyVal) on the structures in memory.        *)
Button_GetFinalCount_At(keys, vals, k, currentState) ==
    LET r == Button_GetFinalCount(keys[k], vals[k], currentState)
    IN  [keys |-> [keys EXCEPT ![k] = r.button],
         vals |-> [vals EXCEPT ![k] = r.finalCount],
         ret  |-> r.ret]

SoloInit(k) ==
    [button     |-> Button_Init([pull |-> KeyPull(k)], KeyPort(k), KeyPin(k), KeyPull(k)),
     finalCount |-> 0,
     ret        |-> "none"]

InitTwo ==
    /\ \E port \in Ports, pin \in Pins, pull \in Pulls :
          button = Button_Init([pull |-> pull], port, pin, pull)
    /\ finalCount = 0
    /\ op = "init"
    /\ last = NoFetch
    /\ sample = NoSample
    /\ sinceMark = 0
    /\ hadEdge = FALSE
    /\ confirmed = 0
    /\ burstEdges = 0
    /\ quiet = 0
    /\ gest = GestOff
    /\ two = [keys  |-> [k \in Keys |-> SoloInit(k).button],
              vals  |-> [k \in Keys |-> 0],
              rets  |-> [k \in Keys |-> "none"],
              solo  |-> [k \in Keys |-> SoloInit(k)],
              who   |-> 0,
              steps |-> 0]
    /\ latch = LatchOff

TwoFrame ==
    UNCHANGED <<button, finalCount, op, last, sample, sinceMark, hadEdge,
                confirmed, burstEdges, quiet, gest, latch>>

(* Button_Init is called again on one key.                                 *)
TwoReinit ==
    /\ two.steps < MaxTwoSteps
    /\ \E k \in Keys :
          two' = [two EXCEPT
                    !.keys    = Button_Init_At(two.keys, k, KeyPort(k), KeyPin(k), KeyPull(k)),
                    !.rets[k] = "none",
                    !.solo[k] = [@ EXCEPT !.button = Button_Init(@, KeyPort(k), KeyPin(k), KeyPull(k)),
                                          !.ret    = "none"],
                    !.who     = k,
                    !.steps   = @ + 1]
    /\ TwoFrame

(* Timer time passes for every software timer.                             *)
TwoTick ==
    /\ two.steps < MaxTwoSteps
    /\ \E d \in TwoSteps :
          LET adv(b) == [b EXCEPT !.debounceTimer = softTimer_update(@, d),
                                  !.timeoutTimer  = softTimer_update(@, d)]
          IN  two' = [two EXCEPT
                        !.keys  = [k \in Keys |-> adv(two.keys[k])],
                        !.solo  = [k \in Keys |->
                                     [two.solo[k] EXCEPT !.button = adv(@)]],
                        !.who   = 0,
                        !.steps = @ + 1]
    /\ TwoFrame

(* status = Button_GetFinalCount(&key, &keyVal) for one of the keys.       *)
TwoFetch ==
    /\ two.steps < MaxTwoSteps
    /\ \E k \in Keys, currentState \in PinStates :
          LET r == Button_GetFinalCount_At(two.keys, two.vals, k, currentState)
              a == Button_GetFinalCount(two.solo[k].button, two.solo[k].finalCount,
                                        currentState)
          IN  two' = [two EXCEPT
                        !.keys    = r.keys,
                        !.vals    = r.vals,
                        !.rets[k] = r.ret,
                        !.solo[k] = [button |-> a.button, finalCount |-> a.finalCount,
                                     ret |-> a.ret],
                        !.who     = k,
                        !.steps   = @ + 1]
    /\ TwoFrame

NextTwo == TwoReinit \/ TwoTick \/ TwoFetch

SpecTwo == InitTwo /\ [][NextTwo]_vars

(***************************************************************************)
(* SpecLatch: the module as it is, and next to it the one-shot latch       *)
(* variant, in which the timeout branch sets isReadFinish and leaves the   *)
(* timeout timer alone.  Both get the same calls, the same pin samples and *)
(* the same timer time.                                                    *)
(***************************************************************************)
InitLatch ==
    /\ \E port \in Ports, pin \in Pins, pull \in Pulls :
          /\ button = Button_Init([pull |-> pull], port, pin, pull)
          /\ latch = [button     |-> Button_Init([pull |-> pull], port, pin, pull),
                      finalCount |-> 0,
                      ret        |-> "none"]
    /\ finalCount = 0
    /\ op = "init"
    /\ last = NoFetch
    /\ sample = NoSample
    /\ sinceMark = 0
    /\ hadEdge = FALSE
    /\ confirmed = 0
    /\ burstEdges = 0
    /\ quiet = 0
    /\ gest = GestOff
    /\ two = TwoOff

LatchFrame ==
    UNCHANGED <<sample, sinceMark, hadEdge, confirmed, burstEdges, quiet, gest,
                two>>

LatchTick ==
    /\ \E d \in LiveSteps :
          LET adv(b) == [b EXCEPT !.debounceTimer = softTimer_update(@, d),
                                  !.timeoutTimer  = softTimer_update(@, d)]
          IN  /\ button' = adv(button)
              /\ latch' = [latch EXCEPT !.button = adv(@)]
    /\ op' = "tick"
    /\ UNCHANGED <<finalCount, last>>
    /\ LatchFrame

LatchFetch ==
    /\ \E currentState \in PinStates :
          LET r == Button_GetFinalCount(button, finalCount, currentState)
              v == Button_GetFinalCount_Latch(latch.button, latch.finalCount,
                                              currentState)
          IN  /\ button' = r.button
              /\ finalCount' = r.finalCount
              /\ last' = [NoFetch EXCEPT !.ret = r.ret, !.counted = r.counted,
                                         !.timedOut = r.timedOut,
                                         !.expired = IsTimedOut(button)]
              /\ latch' = v
    /\ op' = "fetch"
    /\ LatchFrame

NextLatch == LatchTick \/ LatchFetch

SpecLatch == InitLatch /\ [][NextLatch]_vars

(***************************************************************************)
(* Properties.                                                             *)
(***************************************************************************)
IsFetch == op' = "fetch"

(* The two consecutive pin samples of this fetch show an inactive-to-      *)
(* active transition.                                                      *)
SampledPressTransition ==
    /\ sample = inactiveState(button.pull)
    /\ sample' = activeState(button.pull)

(* C1: whenever Button_GetFinalCount returns return_success, the call      *)
(* assigned *finalCount and the value lies in 1..PUSH_COUNT_MAX.           *)
C1_SuccessCountInRange ==
    (op = "fetch" /\ last.ret = return_success)
        => (last.wrote /\ finalCount \in 1..PUSH_COUNT_MAX)

C1_Witness ==
    op = "fetch" /\ last.ret = return_success /\ finalCount = PUSH_COUNT_MAX

(* C2: a fetch returns return_success only when at least BUTTON_TIMEOUT_MS *)
(* has elapsed since the most recent increment of pushCount, that          *)
(* increment not being in the same fetch; so no fetch made less than       *)
(* BUTTON_TIMEOUT_MS after a confirmed edge returns return_success.        *)
C2_DeliveredAfterIdle ==
    [][(IsFetch /\ last'.ret = return_success)
          => (hadEdge /\ ~last'.counted /\ sinceMark >= BUTTON_TIMEOUT_MS)]_vars

C2_Witness ==
    /\ op = "fetch" /\ last.ret = return_success
    /\ hadEdge /\ sinceMark >= BUTTON_TIMEOUT_MS /\ last.burst >= 2

(* C3: with N confirmed presses pending (1 <= N <= PUSH_COUNT_MAX), a      *)
(* fetch made once BUTTON_TIMEOUT_MS has elapsed since the last confirmed  *)
(* edge and sampling no inactive-to-active transition returns              *)
(* return_success with *finalCount = N; the next fetch, made less than     *)
(* BUTTON_TIMEOUT_MS later and again sampling no such transition, returns  *)
(* return_busy with pushCount = 0 and isReadFinish = false.                *)
C3_TimeoutFinalization ==
    [][IsFetch =>
         /\ (/\ confirmed \in 1..PUSH_COUNT_MAX
             /\ hadEdge /\ sinceMark >= BUTTON_TIMEOUT_MS
             /\ ~SampledPressTransition)
               => (/\ last'.ret = return_success
                   /\ last'.wrote
                   /\ finalCount' = confirmed)
         /\ (/\ last.ret = return_success
             /\ quiet # NotQuiet /\ quiet < BUTTON_TIMEOUT_MS
             /\ ~SampledPressTransition)
               => (/\ last'.ret = return_busy
                   /\ button'.pushCount = 0
                   /\ button'.isReadFinish = FALSE)]_vars

C3_Witness ==
    /\ op = "fetch" /\ last.ret = return_busy
    /\ quiet # NotQuiet /\ quiet > 0 /\ quiet < BUTTON_TIMEOUT_MS
    /\ finalCount = 3 /\ button.pushCount = 0 /\ sinceMark >= BUTTON_TIMEOUT_MS

(* C4: after every fetch that returns return_success or return_failed,     *)
(* pushCount = 0 and isReadFinish = false.                                 *)
C4_ReportResetsState ==
    (op = "fetch" /\ last.ret \in {return_success, return_failed})
        => (button.pushCount = 0 /\ button.isReadFinish = FALSE)

C4_Witness ==
    /\ op = "fetch" /\ last.ret = return_failed /\ last.counted
    /\ button.pushCount = 0 /\ button.isReadFinish = FALSE

(* C5: in a burst of PUSH_COUNT_MAX+1 confirmed presses, the fetch that    *)
(* confirms the last press returns return_failed, no fetch of the burst    *)
(* returns return_success, the fetch in which the idle timeout then fires  *)
(* returns return_failed, and pushCount is 0 from the last press on and    *)
(* whenever no press of a burst has been confirmed yet.                    *)
C5_OverflowBurstFails ==
    /\ (op = "fetch" /\ last.burst = PUSH_COUNT_MAX + 1)
          => /\ last.ret # return_success
             /\ last.counted => last.ret = return_failed
             /\ last.timedOut => last.ret = return_failed
             /\ button.pushCount = 0
    /\ burstEdges \in {0, PUSH_COUNT_MAX + 1} => button.pushCount = 0

C5_Witness ==
    /\ op = "fetch" /\ last.burst = PUSH_COUNT_MAX + 1
    /\ last.timedOut /\ last.ret = return_failed
    /\ burstEdges = 0 /\ button.pushCount = 0

(* C6: a burst with more than PUSH_COUNT_MAX confirmed presses is never    *)
(* reported as return_success: no fetch of such a burst, the one in which  *)
(* the idle timeout ends it included, returns return_success.              *)
C6_OverLimitBurstNeverSucceeds ==
    (op = "fetch" /\ last.burst > PUSH_COUNT_MAX) => last.ret # return_success

(* C7: when BUTTON_TIMEOUT_MS has elapsed since the later of Button_Init   *)
(* and the last return_success/return_failed with no confirmed press       *)
(* since, this fetch confirming none either, the fetch returns             *)
(* return_failed and leaves *finalCount alone.                             *)
C7_ZeroCountFails ==
    [][(/\ IsFetch
        /\ quiet # NotQuiet /\ quiet >= BUTTON_TIMEOUT_MS
        /\ confirmed = 0
        /\ ~last'.counted)
          => (/\ last'.ret = return_failed
              /\ ~last'.wrote
              /\ finalCount' = finalCount)]_vars

C7_Witness ==
    /\ op = "fetch" /\ last.ret = return_failed /\ last.timedOut
    /\ ~last.counted /\ last.burst = 0 /\ finalCount = 2

(* C8: a fetch in which no inactive-to-active edge is detected and the     *)
(* timeout timer has not elapsed returns return_busy and leaves pushCount, *)
(* isReadFinish, both timers and *finalCount unchanged.                    *)
C8_IdempotentBusy ==
    [][(/\ IsFetch
        /\ ~(/\ sample' = activeState(button.pull)
              /\ button.lastState = inactiveState(button.pull))
        /\ ~softTimer_isElapsed(button.timeoutTimer, BUTTON_TIMEOUT_MS))
          => (/\ last'.ret = return_busy
              /\ ~last'.wrote
              /\ button'.pushCount = button.pushCount
              /\ button'.isReadFinish = button.isReadFinish
              /\ button'.debounceTimer = button.debounceTimer
              /\ button'.timeoutTimer = button.timeoutTimer
              /\ finalCount' = finalCount)]_vars

C8_Witness ==
    /\ op = "fetch" /\ last.ret = return_busy /\ ~last.counted
    /\ button.pushCount = 2 /\ button.lastState = activeState(button.pull)
    /\ button.timeoutTimer > 0

(* C9: pushCount is incremented only when at least DEBOUNCE_DELAY_MS has   *)
(* elapsed since the later of Button_Init and the previous increment.      *)
C9_DebounceSpacing ==
    [][(IsFetch /\ (last'.counted \/ button'.pushCount > button.pushCount))
          => sinceMark >= DEBOUNCE_DELAY_MS]_vars

C9_Witness ==
    /\ op = "fetch" /\ last.counted /\ button.pushCount = 2 /\ sinceMark = 0

(* C10 as stated: pushCount is incremented only in a fetch whose sample    *)
(* is the active level while the preceding fetch sampled the inactive      *)
(* level; the first fetch after Button_Init has no preceding fetch and     *)
(* increments nothing.                                                     *)
C10_IncrementNeedsTwoSamples ==
    [][(IsFetch /\ last'.counted)
          => (sample # NoSample /\ SampledPressTransition)]_vars

(* C10 amended: pushCount is incremented only in a fetch whose sample is   *)
(* the active level while the preceding sample was the inactive level,     *)
(* where on the first fetch after Button_Init the preceding sample is the  *)
(* GPIO_PIN_RESET that Button_Init stores in lastState.                    *)
C10_IncrementNeedsTransition ==
    [][(IsFetch /\ last'.counted)
          => /\ sample' = activeState(button.pull)
             /\ (IF sample = NoSample THEN GPIO_PIN_RESET ELSE sample)
                    = inactiveState(button.pull)]_vars

C10_Witness ==
    /\ op = "fetch" /\ last.counted /\ button.pull = GPIO_PULLUP
    /\ sample = GPIO_PIN_RESET /\ button.pushCount = 1

(* C12: right after Button_Init, for every pull configuration, lastState   *)
(* is the inactive level of that configuration, pushCount = 0,             *)
(* isReadFinish = false and both timers are reset.                         *)
C12_InitStoresInactiveLevel ==
    op = "init"
        => /\ button.lastState = inactiveState(button.pull)
           /\ button.pushCount = 0
           /\ button.isReadFinish = FALSE
           /\ button.debounceTimer = 0
           /\ button.timeoutTimer = 0

(* C14: a fetch returns return_success only when pushCount has been        *)
(* incremented since the later of Button_Init and the previous fetch that  *)
(* returned return_success or return_failed; after one confirmed press the *)
(* delivered count is 1, and with no press since the last report a fetch   *)
(* never returns return_success, however long the idle time.               *)
C14_SingleDeliveryPerBurst ==
    [][IsFetch =>
         /\ last'.ret = return_success => confirmed >= 1
         /\ (last'.ret = return_success /\ confirmed = 1) => finalCount' = 1
         /\ (confirmed = 0 /\ ~last'.counted) => last'.ret # return_success]_vars

C14_Witness ==
    /\ op = "fetch" /\ last.ret = return_failed /\ last.timedOut
    /\ finalCount = 1 /\ last.burst = 0 /\ hadEdge

(* C15: pushCount is at most PUSH_COUNT_MAX between calls; the increment   *)
(* inside a call adds exactly one and never wraps, so pushCount is at most *)
(* PUSH_COUNT_MAX+1 inside a call; the fetch that confirms edge number     *)
(* PUSH_COUNT_MAX+1 resets pushCount to 0 and returns return_failed in     *)
(* that same fetch, the timeout not having fired.                          *)
C15_CountBounded ==
    [][/\ button'.pushCount <= PUSH_COUNT_MAX
       /\ (IsFetch /\ last'.counted)
             => /\ ConfirmPress(button).pushCount = button.pushCount + 1
                /\ ConfirmPress(button).pushCount <= PUSH_COUNT_MAX + 1
       /\ (IsFetch /\ last'.counted /\ confirmed = PUSH_COUNT_MAX)
             => /\ last'.ret = return_failed
                /\ ~last'.timedOut
                /\ button'.pushCount = 0]_vars

C15_Witness ==
    /\ op = "fetch" /\ last.counted /\ last.ret = return_failed
    /\ ~last.timedOut /\ button.pushCount = 0 /\ last.burst = PUSH_COUNT_MAX + 1

(* C16: the count delivered with return_success is the number of           *)
(* increments of pushCount since the later of Button_Init and the previous *)
(* fetch that returned return_success or return_failed.                    *)
C16_DeliveredCountIsEdgeCount ==
    [][(IsFetch /\ last'.ret = return_success)
          => /\ last'.wrote
             /\ finalCount' = confirmed + (IF last'.counted THEN 1 ELSE 0)]_vars

C16_Witness ==
    /\ op = "fetch" /\ last.ret = return_success /\ last.wrote
    /\ finalCount = 4 /\ last.burst = 4 /\ sinceMark >= BUTTON_TIMEOUT_MS

(* C17: inside a fetch isReadFinish goes from false to true only when the  *)
(* timeout timer reports BUTTON_TIMEOUT_MS elapsed on entry, and a set     *)
(* flag is cleared only by a call that returns return_success or           *)
(* return_failed; no other step changes it.                                *)
C17_FlagSetByTimeoutClearedByReport ==
    [][/\ ~IsFetch => button'.isReadFinish = button.isReadFinish
       /\ IsFetch =>
             LET c == Button_CountPushes(button, sample')
             IN  /\ (~button.isReadFinish /\ c.button.isReadFinish)
                       => softTimer_isElapsed(button.timeoutTimer, BUTTON_TIMEOUT_MS)
                 /\ (~button.isReadFinish /\ button'.isReadFinish)
                       => softTimer_isElapsed(button.timeoutTimer, BUTTON_TIMEOUT_MS)
                 /\ ((button.isReadFinish \/ c.button.isReadFinish)
                        /\ ~button'.isReadFinish)
                       => last'.ret \in {return_success, return_failed}]_vars

C17_Witness ==
    /\ op = "fetch" /\ last.timedOut /\ last.ret = return_success
    /\ button.isReadFinish = FALSE /\ button.timeoutTimer = 0

(* C18: a fetch that increments pushCount resets both timers, a fetch that *)
(* does not leaves the debounce timer alone, and in every state the time   *)
(* on the timeout timer is at most the time on the debounce timer.         *)
C18_TimerResetsPaired ==
    [][/\ button'.timeoutTimer <= button'.debounceTimer
       /\ (IsFetch /\ last'.counted)
             => (button'.debounceTimer = 0 /\ button'.timeoutTimer = 0)
       /\ (IsFetch /\ ~last'.counted)
             => button'.debounceTimer = button.debounceTimer]_vars

C18_Witness ==
    /\ op = "tick" /\ hadEdge /\ button.pushCount = 0
    /\ button.timeoutTimer = TickMs /\ button.debounceTimer > BUTTON_TIMEOUT_MS - TickMs

(* C19: a fetch that samples an inactive-to-active transition while the    *)
(* debounce timer has not reached DEBOUNCE_DELAY_MS leaves pushCount, the  *)
(* debounce timer and the timeout timer (and isReadFinish, *finalCount)    *)
(* unchanged; only lastState changes, to the sampled level.                *)
C19_RejectedEdgeSilent ==
    [][(/\ IsFetch
        /\ sample' = activeState(button.pull)
        /\ button.lastState = inactiveState(button.pull)
        /\ ~softTimer_isElapsed(button.debounceTimer, DEBOUNCE_DELAY_MS))
          => /\ button' = [button EXCEPT !.lastState = sample']
             /\ button'.lastState # button.lastState
             /\ ~last'.counted
             /\ last'.ret = return_busy
             /\ finalCount' = finalCount]_vars

C19_Witness ==
    /\ op = "fetch" /\ last.edge /\ ~last.counted
    /\ button.pushCount = 1 /\ button.debounceTimer = TickMs
    /\ button.lastState = activeState(button.pull)

(* C20: after every fetch lastState is the level sampled in that fetch;    *)
(* so a fetch that samples the active level right after a fetch that       *)
(* sampled the active level never increments pushCount, whether or not     *)
(* the earlier edge was counted and however long the level is held.        *)
C20_LastStateFollowsSample ==
    [][IsFetch =>
         /\ button'.lastState = sample'
         /\ (sample = activeState(button.pull) /\ sample' = activeState(button.pull))
               => (~last'.counted /\ button'.pushCount <= button.pushCount)]_vars

C20_Witness ==
    /\ op = "fetch" /\ button.pull = GPIO_PULLDOWN /\ sample = GPIO_PIN_SET
    /\ ~hadEdge /\ ~last.edge /\ ~last.counted
    /\ softTimer_isElapsed(button.debounceTimer, DEBOUNCE_DELAY_MS)

(* C11: one press-and-release whose level oscillation lasts less than      *)
(* DEBOUNCE_DELAY_MS after the press transition and less than              *)
(* DEBOUNCE_DELAY_MS after the release transition increases pushCount by   *)
(* exactly 1, whatever the hold duration and the polling cadence.  (The    *)
(* press transition is one sampled with the debounce timer elapsed.)       *)
C11_BounceAddsNoCounts ==
    gest.phase = "done" => gest.n = 1

C21_TimeoutRearms ==
    [][IsFetch =>
         LET idle == IF quiet # NotQuiet THEN quiet ELSE sinceMark
         IN  /\ last'.timedOut => idle >= BUTTON_TIMEOUT_MS
             /\ button'.isReadFinish # button.isReadFinish
                   => idle >= BUTTON_TIMEOUT_MS
             /\ (quiet # NotQuiet /\ ~last'.counted /\ quiet >= BUTTON_TIMEOUT_MS)
                   => (last'.timedOut /\ last'.ret = return_failed)]_vars

C21_Witness ==
    /\ op = "fetch" /\ last.timedOut /\ last.ret = return_failed
    /\ finalCount = 2 /\ quiet = 0 /\ sinceMark >= BUTTON_TIMEOUT_MS

(* C23: *finalCount is written only by a call that returns                 *)
(* return_success; a call that returns return_busy or return_failed        *)
(* (overflow or zero count) leaves the caller's value as it was.           *)
C23_CountWrittenOnlyOnSuccess ==
    [][IsFetch =>
         /\ last'.wrote => last'.ret = return_success
         /\ finalCount' # finalCount => last'.ret = return_success
         /\ last'.ret \in {return_busy, return_failed}
               => finalCount' = finalCount]_vars

(* A zero-count failure with an earlier delivered 3 still in place.        *)
C23_Witness ==
    /\ op = "fetch" /\ last.ret = return_failed /\ last.timedOut
    /\ ~last.wrote /\ finalCount = 3

(* C24: isReadFinish is false in every state between calls, hence at the   *)
(* entry and at the return of every Button_GetFinalCount call; and the     *)
(* overflow return of Button_CountPushes, which does not clear the flag,   *)
(* is never taken with the flag set.                                       *)
C24_FinishedNeverVisible ==
    /\ button.isReadFinish = FALSE
    /\ [][/\ button'.isReadFinish = FALSE
          /\ IsFetch =>
                LET c == Button_CountPushes(button, sample')
                IN  (c.ret = return_failed \/ last'.counted)
                       => (~c.timedOut /\ c.button.isReadFinish = FALSE)]_vars

C24_Witness ==
    /\ op = "fetch" /\ last.ret = return_failed /\ last.counted
    /\ button.isReadFinish = FALSE /\ finalCount = 1 /\ sinceMark = 0

(* C25: a fetch that increments pushCount resets the timeout timer before  *)
(* the timeout test, so it neither sets isReadFinish nor returns           *)
(* return_success, also when the timeout timer had expired on entry; the   *)
(* tally pending before such a fetch is not delivered: it goes on as the   *)
(* current burst, one higher (and is dropped by the overflow guard when    *)
(* that makes PUSH_COUNT_MAX + 1).                                         *)
C25_EdgeBeforeTimeout ==
    [][(IsFetch /\ last'.counted) =>
         /\ ConfirmPress(button).pushCount = button.pushCount + 1
         /\ ~last'.timedOut
         /\ button'.isReadFinish = FALSE
         /\ button'.timeoutTimer = 0
         /\ last'.ret # return_success
         /\ ~last'.wrote /\ finalCount' = finalCount
         /\ softTimer_isElapsed(button.timeoutTimer, BUTTON_TIMEOUT_MS) =>
               IF button.pushCount < PUSH_COUNT_MAX
               THEN /\ last'.ret = return_busy
                    /\ button'.pushCount = button.pushCount + 1
               ELSE /\ last'.ret = return_failed
                    /\ button'.pushCount = 0]_vars

(* A second press counted by a fetch that found the timeout expired.       *)
C25_Witness ==
    /\ op = "fetch" /\ last.counted /\ last.expired
    /\ last.ret = return_busy /\ button.pushCount = 2

(* C26: with the main loop polling and the tick handler running for ever,  *)
(* Button_GetFinalCount returns return_success or return_failed again and  *)
(* again, whatever the pin does.                                           *)
C26_BusyNeverPersists ==
    []<>(op = "fetch" /\ last.ret \in {return_success, return_failed})

(* Presses keep arriving across an expired timeout and the overflow guard  *)
(* ends the busy run.                                                      *)
C26_Witness ==
    /\ op = "fetch" /\ last.ret = return_failed
    /\ last.counted /\ last.expired

(* C22 as stated: the one-shot latch variant returns the same status and   *)
(* delivers the same count as the original in every fetch.                 *)
C22_LatchEquivalent ==
    op = "fetch" => (latch.ret = last.ret /\ latch.finalCount = finalCount)

(* C22, amended: the variant delivers the same counts in the same fetches  *)
(* and returns the same overflow failures, and its structure differs from  *)
(* the original's in the timeout timer only; the statuses differ in idle   *)
(* fetches after a firing, pushCount being 0 and the original's timer not  *)
(* yet at BUTTON_TIMEOUT_MS again: there the original returns return_busy  *)
(* and the variant return_failed, at every such fetch.                     *)
C22_LatchDiffersWhenIdle ==
    [][IsFetch =>
         /\ latch'.finalCount = finalCount'
         /\ (latch'.ret = return_success) <=> (last'.ret = return_success)
         /\ last'.counted => latch'.ret = last'.ret
         /\ [latch'.button EXCEPT !.timeoutTimer = button'.timeoutTimer] = button'
         /\ latch'.ret # last'.ret
               <=> /\ ~last'.counted
                   /\ button.pushCount = 0
                   /\ ~IsTimedOut(button)
                   /\ IsTimedOut(latch.button)
         /\ latch'.ret # last'.ret
               => (last'.ret = return_busy /\ latch'.ret = return_failed)]_vars

(* After a delivered count of 1 the original is busy again and the variant *)
(* reports a failure.                                                      *)
C22_Witness ==
    /\ op = "fetch" /\ last.ret = return_busy /\ latch.ret = return_failed
    /\ finalCount = 1 /\ latch.finalCount = 1

====
